---- MODULE Spec2Model ----
(***************************************************************************)
(* State-machine model of the paper-store tools of renyezhang/toppaper:    *)
(*   json_merge.py    merge_json_files          (consolidation)            *)
(*   json_delete.py   delete_papers_by_source   (bulk delete)              *)
(*   search_papers.py main / save_json          (code-link enrichment)     *)
(* and of its source adapters, AAAI.py and papers/*.py, one run at a time, *)
(* with the two page parsers of AAAI.py and papers/CVPR.py on their own.   *)
(* The tools are run by one operator, one at a time, over the *.json files *)
(* of one working directory.                                               *)
(*                                                                         *)
(* Text is modelled as a sequence of tokens (<<>> is the empty string), so *)
(* that lower-casing and substring search are computed and not assumed.    *)
(***************************************************************************)
EXTENDS Integers, Sequences, FiniteSets, TLC

VARIABLES
    files,            \* the working directory: file name -> content
    op,               \* the tool that is running ("idle" when none is)
    pc,               \* position of the running tool in its code
    papers,           \* search_papers.main: the list loaded from JSON_FILE
    i,                \* search_papers.main: 1-based index of the for loop (kept after the pass)
    processed_count,  \* search_papers.main: lookups since the last browser start
    all_papers,       \* json_merge / json_delete: the working list
    json_files,       \* json_merge: the globbed partial files, in glob order
    papers_to_keep,   \* json_delete: the filtered list
    start,            \* history: the directory as it was when the running/last tool started
    lastOp,           \* history: the running/last tool
    outcome,          \* history: how the last tool ended
    looked,           \* history: indices looked up in the running/last enrichment pass
    restarts,         \* history: indices whose lookup the browser was restarted for
    prevLooked,       \* history: indices looked up in the pass run immediately before
    matched,          \* history: <<index, url>> of the codes this pass attached
    wrote,            \* history: json_merge reached the line after a successful json.dump
    runs,             \* history: how many tool runs the operator has started
    input,            \* json_delete.main: sys.argv[1:] and the text typed at the prompts
    call,             \* json_delete.delete_papers_by_source: source, year, deleted_count, confirm
    scraper,          \* a source adapter's run: its name, position, groupings left, papers
    output,           \* the file the adapter writes (its partial collection)
    net,              \* history: a request of the run failed; the records parsed so far
    parse             \* a parser applied to one page or fragment: its input and result

vars == <<files, op, pc, papers, i, processed_count, all_papers, json_files,
          papers_to_keep, start, lastOp, outcome, looked, restarts, prevLooked, matched, wrote,
          runs, input, call, scraper, output, net, parse>>

\* the variables of the source adapters, and those of the three tools
adapterVars == <<scraper, output, net>>
toolVars == <<files, op, pc, papers, i, processed_count, all_papers, json_files,
              papers_to_keep, start, lastOp, outcome, looked, restarts, prevLooked, matched,
              wrote, runs, input, call>>

----------------------------------------------------------------------------
(* Bounds of the model *)

\* longest list a file holds initially
MaxLen == 2
\* longest result list a lookup returns
MaxHits == 2
\* most records a consolidation may put into the canonical store
MaxStore == 4
\* most tool runs the operator starts
MaxRuns == 3

----------------------------------------------------------------------------
(* Program constants *)

target_file == "papers.json"
JSON_FILE == "AAAI2025papers.json"
OTHER_FILE == "CVPR2013papers.json"

\* search_papers.py:13 sets 200; the model runs the same code with a cadence
\* small enough for a restart to happen within MaxLen records.
RESTART_EVERY_N == 2

\* search_papers.py:65  [:5]
RESULT_LIMIT == 5

FileNames == {target_file, JSON_FILE, OTHER_FILE}
Partials == FileNames \ {target_file}

----------------------------------------------------------------------------
(* Text *)

EmptyStr == <<>>

\* str.lower() on the tokens the model uses
LowerTok(t) ==
    CASE t = "GitHub.com" -> "github.com"
      [] t = "HTTPS://"   -> "https://"
      [] OTHER            -> t

RECURSIVE Lower(_)
Lower(s) == IF s = <<>> THEN <<>> ELSE <<LowerTok(Head(s))>> \o Lower(Tail(s))

\* `needle in t` for two tokens: the tokens of the model that hold another
\* token as a substring
SubTok(t, needle) ==
    \/ t = needle
    \/ needle = "github.com" /\ t = "/abs/1?ref=github.com"

\* `needle in s` for a one-token needle: anywhere in the text
Contains(s, needle) == \E k \in 1..Len(s) : SubTok(s[k], needle)

\* Python truthiness of a str
Truthy(s) == s # EmptyStr

URLS == { <<"https://", "github.com", "/a/x">>,
          <<"https://", "GitHub.com", "/b/y">>,
          <<"https://", "arxiv.org", "/abs/1">> }

\* a repository link, and a link of another host that names the hosting
\* site in its query string
HostURLS == { <<"https://", "github.com", "/a/x">>,
              <<"https://", "arxiv.org", "/abs/1?ref=github.com">> }

SmallURLS == { <<"https://", "GitHub.com", "/b/y">>,
               <<"https://", "arxiv.org", "/abs/1">> }

----------------------------------------------------------------------------
(* Records and files *)

YInt(n) == [kind |-> "int", val |-> n]
YNone   == [kind |-> "none", val |-> 0]
\* a year that is text ("n/a", "2024")
YStr(t) == [kind |-> "str", val |-> t]

Rec(t, y, s, h, c) ==
    [title |-> t, year |-> y, source |-> s, hasCode |-> h, code |-> c]

\* The records the initial files are drawn from.
Pool ==
    { Rec(<<"A">>, YInt(2024), "AAAI", FALSE, EmptyStr),
      Rec(<<"B">>, YInt(2024), "CVPR", TRUE,  EmptyStr),
      Rec(<<"A">>, YInt(2023), "CVPR", FALSE, EmptyStr),
      Rec(<<"C">>, YNone,      "AAAI", TRUE,  <<"https://", "github.com", "/c/z">>),
      Rec(EmptyStr, YInt(2023), "AAAI", FALSE, EmptyStr) }

\* Two records of one year, a record without year, a title that repeats when
\* a record is in two files.
MergePool ==
    { Rec(<<"A">>, YInt(2024), "AAAI", FALSE, EmptyStr),
      Rec(<<"B">>, YInt(2024), "CVPR", TRUE,  EmptyStr),
      Rec(<<"C">>, YNone,      "AAAI", TRUE,  <<"https://", "github.com", "/c/z">>) }

SmallPool ==
    { Rec(<<"A">>, YInt(2023), "CVPR", FALSE, EmptyStr),
      Rec(<<"A">>, YInt(2024), "AAAI", FALSE, EmptyStr),
      Rec(<<"C">>, YNone,      "AAAI", TRUE,  <<"https://", "github.com", "/c/z">>) }

Absent  == [kind |-> "absent",  recs |-> <<>>]
Corrupt == [kind |-> "corrupt", recs |-> <<>>]   \* not parseable as JSON
Object  == [kind |-> "object",  recs |-> <<>>]   \* valid JSON, not an array
List(s) == [kind |-> "list",    recs |-> s]

SeqsUpTo(S, n) == UNION { [1..k -> S] : k \in 0..n }

----------------------------------------------------------------------------
(* search_papers.py *)

Take(s, n) == SubSeq(s, 1, IF Len(s) < n THEN Len(s) ELSE n)

\* search_paper_in_edge: the hrefs of the first RESULT_LIMIT result elements
\* (a failed page load or a wait time-out gives the empty raw list).
search_paper_in_edge(raw) == Take(raw, RESULT_LIMIT)

\* main, the test of line 134
IsGithub(url) == Contains(Lower(url), "github.com")

\* main, lines 126-138: walk the urls in order, attach the first match.
\* The result is <<found_github, paper>>.
RECURSIVE ScanUrls(_, _, _)
ScanUrls(urls, found_github, paper) ==
    IF urls = <<>> THEN <<found_github, paper>>
    ELSE IF ~found_github /\ IsGithub(Head(urls))
         THEN ScanUrls(Tail(urls), TRUE,
                       [paper EXCEPT !.hasCode = TRUE, !.code = Head(urls)])
         ELSE ScanUrls(Tail(urls), found_github, paper)

\* variant: no record is skipped for its title
NoTitleNever(paper) == FALSE

\* main, line 104: `if not title: continue`
NoTitle(paper) == ~Truthy(paper.title)

\* main, line 107: `if "code" in paper and paper["code"]`
AlreadyHasCode(paper) == paper.hasCode /\ Truthy(paper.code)

\* the tool returns to the shell: its locals are gone
\* json_delete: no year given (year=None)
NoYear == <<>>
\* json_delete: int() raised ValueError (a pair, which no year is)
ValueError == <<0, 0>>

NoInput == [argv |-> <<>>, source_in |-> <<>>, year_in |-> <<>>]
NoCall == [source |-> <<>>, year |-> NoYear, deleted_count |-> 0, asked |-> FALSE,
           answer |-> <<>>, confirm |-> <<>>]

Finish(how) ==
    /\ op' = "idle"
    /\ pc' = "none"
    /\ outcome' = how
    /\ papers' = <<>>
    /\ processed_count' = 0
    /\ all_papers' = <<>>
    /\ json_files' = <<>>
    /\ papers_to_keep' = <<>>

Begin(tool) ==
    /\ op = "idle"
    /\ runs < MaxRuns
    /\ runs' = runs + 1
    /\ lastOp' = tool
    /\ start' = files
    /\ UNCHANGED <<adapterVars, parse>>

\* another tool starts: the history of the last enrichment pass is dropped
ForgetPass ==
    /\ i' = 0
    /\ looked' = {}
    /\ restarts' = {}
    /\ prevLooked' = <<>>
    /\ matched' = {}

\* another tool starts: the locals of the last bulk delete are dropped
ForgetDelete ==
    /\ input' = NoInput
    /\ call' = NoCall

\* main, lines 84-100: load the store, start the browser
EnrichStart ==
    /\ Begin("enrich")
    /\ ForgetDelete
    /\ prevLooked' = IF lastOp = "enrich" /\ outcome = "ok" THEN <<looked>> ELSE <<>>
    /\ looked' = {}
    /\ restarts' = {}
    /\ matched' = {}
    /\ wrote' = FALSE
    /\ UNCHANGED files
    /\ CASE files[JSON_FILE].kind = "absent" ->   \* line 84: message, return
                Finish("nofile") /\ i' = 0
         [] files[JSON_FILE].kind = "corrupt" ->  \* json.load raises outside the try
                Finish("crashed") /\ i' = 0
         [] files[JSON_FILE].kind = "object" ->   \* enumerate gives no dict: caught
                Finish("failed") /\ i' = 0
         [] OTHER ->
                /\ op' = "enrich"
                /\ pc' = "loop"
                /\ papers' = files[JSON_FILE].recs
                /\ i' = 1
                /\ processed_count' = 0
                /\ UNCHANGED <<outcome, all_papers, json_files, papers_to_keep>>

AtLoop == op = "enrich" /\ pc = "loop"

\* variant: the restart comes one lookup late
RestartDueLate(count) == count > RESTART_EVERY_N

\* main, line 112: the browser has done its share of lookups
RestartDue(count) == count >= RESTART_EVERY_N

\* main, lines 102-109: records without title or with a code are skipped
EnrichSkip ==
    /\ AtLoop
    /\ i <= Len(papers)
    /\ NoTitle(papers[i]) \/ AlreadyHasCode(papers[i])
    /\ i' = i + 1
    /\ UNCHANGED <<files, op, pc, papers, processed_count, all_papers, json_files,
                   papers_to_keep, start, lastOp, runs, adapterVars, parse, input, call, outcome, looked, restarts, prevLooked,
                   matched, wrote>>

\* main, lines 111-122: restart the browser when due, then issue the lookup
EnrichLookup ==
    /\ AtLoop
    /\ i <= Len(papers)
    /\ ~NoTitle(papers[i])
    /\ ~AlreadyHasCode(papers[i])
    /\ processed_count' = IF RestartDue(processed_count) THEN 0
                          ELSE processed_count
    /\ restarts' = IF RestartDue(processed_count) THEN restarts \cup {i}
                   ELSE restarts
    /\ pc' = "lookup"
    /\ looked' = looked \cup {i}
    /\ UNCHANGED <<files, op, papers, i, all_papers, json_files, papers_to_keep,
                   start, lastOp, runs, adapterVars, parse, input, call, outcome, prevLooked, matched, wrote>>

\* main, lines 122-138: the lookup returns; the first match is attached and
\* save_json opens JSON_FILE for writing, which truncates it (line 79).
EnrichResult(raw) ==
    /\ op = "enrich" /\ pc = "lookup"
    /\ LET urls == search_paper_in_edge(raw)
           res  == ScanUrls(urls, FALSE, papers[i])
       IN  /\ processed_count' = processed_count + 1
           /\ IF res[1]
              THEN /\ papers' = [papers EXCEPT ![i] = res[2]]
                   /\ matched' = matched \cup {<<i, res[2].code>>}
                   /\ files' = [files EXCEPT ![JSON_FILE] = Corrupt]
                   /\ pc' = "save"
              ELSE /\ pc' = "sleep"
                   /\ UNCHANGED <<papers, matched, files>>
    /\ UNCHANGED <<op, i, all_papers, json_files, papers_to_keep, start, lastOp, runs, adapterVars, parse, input, call,
                   outcome, looked, restarts, prevLooked, wrote>>

\* variant: save_json is handed the record and not the list
EnrichSavedRecord ==
    /\ op = "enrich" /\ pc = "save"
    /\ files' = [files EXCEPT ![JSON_FILE] = List(<<papers[i]>>)]
    /\ pc' = "sleep"
    /\ UNCHANGED <<op, papers, i, processed_count, all_papers, json_files,
                   papers_to_keep, start, lastOp, runs, adapterVars, parse, input, call, outcome, looked, restarts, prevLooked,
                   matched, wrote>>

\* save_json, line 80: json.dump completes and the file is closed
EnrichSaved ==
    /\ op = "enrich" /\ pc = "save"
    /\ files' = [files EXCEPT ![JSON_FILE] = List(papers)]
    /\ pc' = "sleep"
    /\ UNCHANGED <<op, papers, i, processed_count, all_papers, json_files,
                   papers_to_keep, start, lastOp, runs, adapterVars, parse, input, call, outcome, looked, restarts, prevLooked,
                   matched, wrote>>

\* main, lines 144-146: the pacing delay ends, the loop goes to the next record
EnrichSleep ==
    /\ op = "enrich" /\ pc = "sleep"
    /\ pc' = "loop"
    /\ i' = i + 1
    /\ UNCHANGED <<files, op, papers, processed_count, all_papers, json_files,
                   papers_to_keep, start, lastOp, runs, adapterVars, parse, input, call, outcome, looked, restarts, prevLooked,
                   matched, wrote>>

\* main, line 102 exhausted, lines 152-155
EnrichDone ==
    /\ AtLoop
    /\ i > Len(papers)
    /\ Finish("ok")
    /\ UNCHANGED <<files, i, start, lastOp, runs, adapterVars, parse, input, call, looked, restarts, prevLooked, matched, wrote>>

\* main, lines 148-155: Ctrl-C (KeyboardInterrupt) or an exception (browser
\* restart, write error) ends the pass wherever it is; a file that save_json
\* has opened and not finished writing stays as it is.
EnrichStop(how) ==
    /\ op = "enrich"
    /\ how = "failed" => pc \in {"loop", "save"}
    /\ Finish(how)
    /\ UNCHANGED <<files, i, start, lastOp, runs, adapterVars, parse, input, call, looked, restarts, prevLooked, matched, wrote>>

----------------------------------------------------------------------------
(* json_merge.py *)

\* get_year, lines 56-60
get_year(paper) == IF paper.year.kind = "none" THEN 0 ELSE paper.year.val

\* The type of a record's sort key: get_year gives a text year back as it is
KeyType(paper) == IF paper.year.kind = "str" THEN "str" ELSE "int"

\* Python orders text by code point: "2024" < "n/a"
StrOrd(t) == CASE t = "2024" -> 1 [] t = "n/a" -> 2

\* key(a) < key(b) for two keys of one type
KeyLess(a, b) ==
    IF KeyType(a) = "str"
    THEN StrOrd(get_year(a)) < StrOrd(get_year(b))
    ELSE get_year(a) < get_year(b)

\* line 62: comparing an int key with a str key raises TypeError, and any sort
\* of a list that holds both has to compare one with the other
MixedKeys(s) == \E a, b \in 1..Len(s) : KeyType(s[a]) # KeyType(s[b])

\* Variant: a record goes before the records of its own year (what sorting
\* ascending and reversing the result would do).
InsertTiesFirst(sorted, paper) ==
    LET k == Cardinality({j \in 1..Len(sorted) : KeyLess(paper, sorted[j])})
    IN  SubSeq(sorted, 1, k) \o <<paper>> \o SubSeq(sorted, k + 1, Len(sorted))

\* list.sort(key=get_year, reverse=True) is stable: a record goes behind every
\* record whose key is greater than or equal to its own.
Insert(sorted, paper) ==
    LET k == Cardinality({j \in 1..Len(sorted) : ~KeyLess(sorted[j], paper)})
    IN  SubSeq(sorted, 1, k) \o <<paper>> \o SubSeq(sorted, k + 1, Len(sorted))

RECURSIVE SortFrom(_, _)
SortFrom(sorted, rest) ==
    IF rest = <<>> THEN sorted ELSE SortFrom(Insert(sorted, Head(rest)), Tail(rest))

\* Variant: the list is written as concatenated.
Unsorted(s) == s

\* line 62
SortByYear(s) == SortFrom(<<>>, s)

\* variant: the first record of a file is taken for a header and left out
LoadedButFirst(content) ==
    IF content.kind = "list" /\ content.recs # <<>> THEN Tail(content.recs) ELSE <<>>

\* lines 18-28 and 43-53: a file that is missing, unparseable or no array adds nothing
Loaded(content) == IF content.kind = "list" THEN content.recs ELSE <<>>

RECURSIVE ReadAll(_, _)
ReadAll(dir, names) ==
    IF names = <<>> THEN <<>>
    ELSE Loaded(dir[Head(names)]) \o ReadAll(dir, Tail(names))

\* variant: the glob without the test of the name
ExistingAny(dir) == {f \in FileNames : dir[f].kind # "absent"}

\* line 31: the *.json files other than papers.json, in the order glob gives
Existing(dir) == {f \in Partials : dir[f].kind # "absent"}
GlobOrders(dir) ==
    {o \in [1..Cardinality(Existing(dir)) -> Existing(dir)] :
        \A a, b \in DOMAIN o : a # b => o[a] # o[b]}

\* lines 15-68: read everything, sort, open papers.json for writing
\* (openOK = FALSE: open raises, caught at line 70)
MergeStart(order, openOK) ==
    /\ Begin("merge")
    /\ ForgetDelete
    /\ order \in GlobOrders(files)
    /\ Len(Loaded(files[target_file]) \o ReadAll(files, order)) <= MaxStore
    /\ wrote' = FALSE
    /\ ForgetPass
    /\ IF order = <<>>
       THEN /\ Finish("nothing")               \* lines 33-35
            /\ UNCHANGED files
       ELSE IF MixedKeys(Loaded(files[target_file]) \o ReadAll(files, order))
       THEN /\ Finish("crashed")               \* line 62: TypeError, not caught
            /\ UNCHANGED files
       ELSE IF ~openOK
       THEN /\ Finish("failed")
            /\ UNCHANGED files
       ELSE /\ op' = "merge"
            /\ pc' = "write"
            /\ all_papers' = SortByYear(Loaded(files[target_file]) \o ReadAll(files, order))
            /\ json_files' = order
            /\ files' = [files EXCEPT ![target_file] = Corrupt]
            /\ UNCHANGED <<outcome, papers, processed_count, papers_to_keep>>

\* lines 67-69: json.dump completes
MergeWritten ==
    /\ op = "merge" /\ pc = "write"
    /\ files' = [files EXCEPT ![target_file] = List(all_papers)]
    /\ wrote' = TRUE
    /\ pc' = "delete"
    /\ UNCHANGED <<op, papers, i, processed_count, all_papers, json_files,
                   papers_to_keep, start, lastOp, runs, adapterVars, parse, input, call, outcome, looked, restarts, prevLooked, matched>>

\* Variant: the except branch without its return.
MergeWriteFailed_NoReturn ==
    /\ op = "merge" /\ pc = "write"
    /\ pc' = "delete"
    /\ UNCHANGED <<files, op, papers, i, processed_count, all_papers, json_files,
                   papers_to_keep, start, lastOp, runs, adapterVars, parse, input, call, outcome, looked, restarts, prevLooked,
                   matched, wrote>>

\* lines 70-72: json.dump raises; message, return
MergeWriteFailed ==
    /\ op = "merge" /\ pc = "write"
    /\ Finish("failed")
    /\ UNCHANGED <<files, i, start, lastOp, runs, adapterVars, parse, input, call, looked, restarts, prevLooked, matched, wrote>>

\* lines 76-82: os.remove of the next globbed file (removed = FALSE: it raises)
MergeRemove(removed) ==
    /\ op = "merge" /\ pc = "delete"
    /\ json_files # <<>>
    /\ files' = IF removed THEN [files EXCEPT ![Head(json_files)] = Absent] ELSE files
    /\ json_files' = Tail(json_files)
    /\ UNCHANGED <<op, pc, papers, i, processed_count, all_papers, papers_to_keep,
                   start, lastOp, runs, adapterVars, parse, input, call, outcome, looked, restarts, prevLooked, matched, wrote>>

\* lines 84-85
MergeDone ==
    /\ op = "merge" /\ pc = "delete"
    /\ json_files = <<>>
    /\ Finish("ok")
    /\ UNCHANGED <<files, i, start, lastOp, runs, adapterVars, parse, input, call, looked, restarts, prevLooked, matched, wrote>>

\* Ctrl-C: KeyboardInterrupt is no Exception, nothing in json_merge.py catches it
MergeInterrupt ==
    /\ op = "merge"
    /\ Finish("interrupted")
    /\ UNCHANGED <<files, i, start, lastOp, runs, adapterVars, parse, input, call, looked, restarts, prevLooked, matched, wrote>>

----------------------------------------------------------------------------
(* json_delete.py *)

\* A record's source is a one-word text; the source given by the operator is
\* text of any length.
\* delete_papers_by_source, lines 40-55: the test of the list comprehension
Matches(paper, source, year) ==
    IF year # NoYear
    THEN <<paper.source>> = source /\ paper.year = YInt(year[1])
    ELSE <<paper.source>> = source

\* variant: the year is ignored
KeepsOtherSource(paper, source, year) == <<paper.source>> # source

Keeps(paper, source, year) == ~Matches(paper, source, year)

RECURSIVE Filter(_, _, _)
Filter(s, source, year) ==
    IF s = <<>> THEN <<>>
    ELSE (IF Keeps(Head(s), source, year) THEN <<Head(s)>> ELSE <<>>)
         \o Filter(Tail(s), source, year)

\* str.strip() and str.lower() on the answers the model uses
RECURSIVE StripLeft(_)
StripLeft(s) == IF s # <<>> /\ Head(s) = " " THEN StripLeft(Tail(s)) ELSE s
RECURSIVE StripRight(_)
StripRight(s) ==
    IF s # <<>> /\ s[Len(s)] = " " THEN StripRight(SubSeq(s, 1, Len(s) - 1)) ELSE s
Strip(s) == StripRight(StripLeft(s))
LowerAnswerTok(t) ==
    CASE t = "Y" -> "y" [] t = "YES" -> "yes" [] t = "N" -> "n" [] OTHER -> t
RECURSIVE LowerAnswer(_)
LowerAnswer(s) ==
    IF s = <<>> THEN <<>> ELSE <<LowerAnswerTok(Head(s))>> \o LowerAnswer(Tail(s))

\* variant: every answer that is not empty confirms
ConfirmedUnlessEmpty(answer) == LowerAnswer(Strip(answer)) # <<>>

\* line 69
Confirmed(answer) ==
    LET confirm == LowerAnswer(Strip(answer))
    IN  ~(confirm # <<"y">> /\ confirm # <<"yes">>)

\* The integer literals of the model, as int() reads one word
IntOfTok(t) ==
    CASE t = "2024" -> <<2024>> [] t = "2023" -> <<2023>> [] t = "0" -> <<0>>
      [] OTHER -> ValueError

\* variant: text that is no integer reads as 0
IntOrZero(text) ==
    LET t == Strip(text)
    IN  IF Len(t) = 1 /\ IntOfTok(t[1]) # ValueError THEN IntOfTok(t[1]) ELSE <<0>>

\* int(text): surrounding blanks are ignored, anything but one integer
\* literal raises ValueError
int(text) ==
    LET t == Strip(text)
    IN  IF Len(t) = 1 THEN IntOfTok(t[1]) ELSE ValueError

\* lines 14-66: load, filter, report the count
DeleteStart(source, year) ==
    /\ Begin("delete")
    /\ ForgetPass
    /\ wrote' = FALSE
    /\ UNCHANGED files
    /\ CASE files[target_file].kind = "absent" ->                       \* line 17
             Finish("nofile") /\ call' = [NoCall EXCEPT !.source = source, !.year = year]
         [] files[target_file].kind # "list"   ->                       \* lines 26, 32
             Finish("failed") /\ call' = [NoCall EXCEPT !.source = source, !.year = year]
         [] OTHER ->
             LET keep == Filter(files[target_file].recs, source, year)
                 deleted_count == Len(files[target_file].recs) - Len(keep)
                 locals == [NoCall EXCEPT !.source = source, !.year = year,
                                          !.deleted_count = deleted_count]
             IN  IF deleted_count = 0
                 THEN Finish("nomatch") /\ call' = locals               \* line 58
                 ELSE /\ op' = "delete"
                      /\ pc' = "confirm"
                      /\ all_papers' = files[target_file].recs
                      /\ papers_to_keep' = keep
                      /\ call' = [locals EXCEPT !.asked = TRUE]         \* lines 66-67
                      /\ UNCHANGED <<outcome, papers, processed_count, json_files>>

\* main, lines 85-123: the source and the year from the command line, or
\* from the prompts when the command line gives none
DeleteMain(argv, source_in, year_in) ==
    LET interactive == ~(Len(argv) >= 1)
        source == IF interactive THEN Strip(source_in) ELSE argv[1]
        year_input == Strip(year_in)
        year == IF interactive
                THEN (IF year_input # <<>> THEN int(year_input) ELSE NoYear)
                ELSE (IF Len(argv) >= 2 THEN int(argv[2]) ELSE NoYear)
    IN  /\ input' = [argv |-> argv, source_in |-> source_in, year_in |-> year_in]
        /\ IF year = ValueError \/ ~Truthy(source)             \* lines 97, 106, 115, 118
           THEN /\ Begin("delete")
                /\ ForgetPass
                /\ wrote' = FALSE
                /\ call' = NoCall
                /\ Finish("badinput")
                /\ UNCHANGED files
           ELSE DeleteStart(source, year)                      \* line 123

\* lines 67-75: the answer; open papers.json for writing
\* (openOK = FALSE: open raises, caught at line 81)
DeleteConfirm(answer, openOK) ==
    /\ op = "delete" /\ pc = "confirm"
    /\ call' = [call EXCEPT !.answer = answer, !.confirm = LowerAnswer(Strip(answer))]
    /\ UNCHANGED <<i, start, lastOp, runs, adapterVars, parse, input, looked, restarts, prevLooked, matched, wrote>>
    /\ IF ~Confirmed(answer)
       THEN Finish("declined") /\ UNCHANGED files
       ELSE IF ~openOK
       THEN Finish("failed") /\ UNCHANGED files
       ELSE /\ pc' = "write"
            /\ files' = [files EXCEPT ![target_file] = Corrupt]
            /\ UNCHANGED <<op, outcome, papers, processed_count, all_papers,
                           json_files, papers_to_keep>>

\* lines 76-79: json.dump completes
DeleteWritten ==
    /\ op = "delete" /\ pc = "write"
    /\ files' = [files EXCEPT ![target_file] = List(papers_to_keep)]
    /\ Finish("ok")
    /\ UNCHANGED <<i, start, lastOp, runs, adapterVars, parse, input, call, looked, restarts, prevLooked, matched, wrote>>

\* Ctrl-C at the prompt or during the write (uncaught), or json.dump raising
\* (lines 81-82)
DeleteStop(how) ==
    /\ op = "delete"
    /\ how = "failed" => pc = "write"
    /\ Finish(how)
    /\ UNCHANGED <<files, i, start, lastOp, runs, adapterVars, parse, input, call, looked, restarts, prevLooked, matched, wrote>>

----------------------------------------------------------------------------
(* Source adapters: AAAI.py and papers/*.py *)

\* most entries of one fetched page
MaxPage == 2
\* most groupings (tracks, days) an index page links to
MaxGroups == 2
\* most records one adapter run collects
MaxPapers == 3

\* AAAI.py:301 falls back to range(27); the model runs the same code with a
\* range small enough to be walked through.
PREDEFINED_TRACKS == 2

Adapters == {"AAAI", "CVPR", "ECCV", "IJCAI", "COLT", "ICLR", "ICML", "COLM"}
OpenReview == {"ICLR", "ICML", "COLM"}

\* An element or attribute of a page is absent (None) or holds text (Some)
None == <<>>
Some(text) == <<text>>

\* A page entry, as far as the adapters look at it: the text of its title
\* element and the href of its (pdf) link
Entry(t, h) == [title |-> t, href |-> h]
LongTitle == <<"Attention is all">>
ShortTitle == <<"Nets">>
AbsHref == <<"https://", "host.org", "/p/1.pdf">>
RelHref == <<"/p/1.pdf">>
EntryPool ==
    { Entry(Some(LongTitle),  Some(AbsHref)),
      Entry(Some(LongTitle),  Some(RelHref)),
      Entry(Some(ShortTitle), Some(EmptyStr)),
      Entry(Some(EmptyStr),   Some(AbsHref)),
      Entry(None,             None) }

\* len() of the texts the model uses
CharLen(t) ==
    CASE t = "Attention is all" -> 16 [] t = "Nets" -> 4
      [] t = "Deep Nets" -> 9 [] t = "Revisited" -> 9
      [] t = "A. Smith" -> 8 [] t = "B. Lee" -> 6
      [] t = "Li" -> 2 [] t = "Wu" -> 2
      [] t = "45-53" -> 5 [] t = "PDF" -> 3
      [] OTHER -> 1
RECURSIVE TextLen(_)
TextLen(s) == IF s = <<>> THEN 0 ELSE CharLen(Head(s)) + TextLen(Tail(s))

\* href.startswith('http')
StartsWithHttp(s) == s # <<>> /\ s[1] \in {"http://", "https://"}

\* urljoin(base, href) for an href that is a rooted path
urljoin(base, href) == IF StartsWithHttp(href) THEN href ELSE base \o href

\* the record an adapter emits (authors and year are not modelled); the keys
\* `track` and `article_url` are absent (None) in all records but AAAI's
paper_info(t, p, s) ==
    [title |-> t, pdf_link |-> p, source |-> s, track |-> None, article_url |-> None]

ojs_base_url == <<"https://", "ojs.aaai.org">>
BASE_URL == <<"https://", "openaccess.thecvf.com">>
ECVA_URL == <<"https://", "www.ecva.net", "/">>
IJCAI_URL == <<"https://", "www.ijcai.org", "/proceedings/2017">>
OPENREVIEW_PDF == <<"https://", "openreview.net", "/pdf?id=", "note.id">>
\* COLT.py:34, 46: the value put in when the element is not found
NA == <<"N/A">>
\* AAAI.py:79, 99-103: the name of the track being parsed, the address of the
\* article page the title links to
TRACK_NAME == <<"Track 1">>
ARTICLE_URL == <<"https://", "ojs.aaai.org", "/index.php/AAAI/article/view/1">>

\* AAAI.py: an entry is taken when a title link of more than 10 characters is
\* found (lines 93, 204) and kept when its title is not empty (line 251)
parse_paper_from_article(e) ==
    IF e.title # None /\ e.title[1] # EmptyStr /\ TextLen(e.title[1]) > 10
    THEN <<[paper_info(e.title[1],
                       IF e.href = None \/ e.href[1] = EmptyStr THEN EmptyStr
                       ELSE IF StartsWithHttp(e.href[1]) THEN e.href[1]
                       ELSE urljoin(ojs_base_url, e.href[1]),
                       "AAAI")
             EXCEPT !.track = Some(TRACK_NAME), !.article_url = Some(ARTICLE_URL)]>>
    ELSE <<>>

\* CVPR.py:58-82 (the replace of /html/ by /papers/ leaves these hrefs alone)
parse_papers_from_html(e) ==
    IF e.title = None THEN <<>>                    \* line 60: no anchor
    ELSE IF e.href = None \/ ~Truthy(e.href[1]) THEN <<>>   \* line 64
    ELSE <<paper_info(e.title[1],
                      IF ~StartsWithHttp(e.href[1])
                      THEN BASE_URL \o <<"/">> \o e.href[1] ELSE e.href[1],
                      "CVPR")>>

\* CVPR.py:91-121: the pattern takes links to content_cvpr_YYYY/html/*.html,
\* which are relative, with a title of at least one character
parse_papers_from_html_legacy(e) ==
    IF e.title = None \/ e.href = None THEN <<>>
    ELSE IF ~Truthy(e.href[1]) \/ StartsWithHttp(e.href[1]) THEN <<>>
    ELSE IF ~Truthy(Strip(e.title[1])) THEN <<>>   \* line 103
    ELSE <<paper_info(Strip(e.title[1]), BASE_URL \o <<"/">> \o e.href[1], "CVPR")>>

\* ECCV.py:62-96
scrape_eccv2024_entry(e) ==
    IF e.title = None THEN <<>>                    \* line 66
    ELSE LET pdf_link == IF e.href = None THEN EmptyStr ELSE e.href[1]
         IN  <<paper_info(Strip(e.title[1]),
                          IF Truthy(pdf_link) /\ ~StartsWithHttp(pdf_link)
                          THEN ECVA_URL \o pdf_link ELSE pdf_link,
                          "ECCV")>>

\* href.lstrip('/') on the hrefs the model uses
LStripSlash(s) ==
    IF s # <<>> /\ s[1] = "/p/1.pdf" THEN <<"p/1.pdf">> \o Tail(s) ELSE s

\* IJCAI.py:35-82
get_ijcai_entry(e) ==
    IF e.title = None THEN <<>>                    \* line 39
    ELSE <<paper_info(e.title[1],
                      IF e.href # None /\ Truthy(e.href[1])
                      THEN (IF ~StartsWithHttp(e.href[1])
                            THEN IJCAI_URL \o <<"/">> \o LStripSlash(e.href[1])
                            ELSE e.href[1])
                      ELSE EmptyStr,
                      "IJCAI")>>

\* COLT.py:31-64
scrape_colt_entry(e) ==
    <<paper_info(IF e.title # None THEN e.title[1] ELSE NA,
                 IF e.href # None THEN e.href[1] ELSE NA,
                 "COLT")>>

\* ICLR2018_.py, ICML.py, COLM.py: main asks for a year served by API v1
\* (ICLR 2017, ICML 2022) or v2 (COLM)
api_version(name) == IF name = "COLM" THEN 2 ELSE 1

\* _parse_note and the test of get_all_papers (ICML.py:63)
parse_note(name, e) ==
    LET title == IF e.title # None THEN e.title[1] ELSE EmptyStr
        has_pdf == IF api_version(name) = 2
                   THEN e.href # None /\ Truthy(e.href[1])
                   ELSE e.href # None
    IN  IF Truthy(title)
        THEN <<paper_info(title, IF has_pdf THEN OPENREVIEW_PDF ELSE EmptyStr, name)>>
        ELSE <<>>

ParseEntry(name, legacy, e) ==
    CASE name = "AAAI"  -> parse_paper_from_article(e)
      [] name = "CVPR"  -> IF legacy THEN parse_papers_from_html_legacy(e)
                           ELSE parse_papers_from_html(e)
      [] name = "ECCV"  -> scrape_eccv2024_entry(e)
      [] name = "IJCAI" -> get_ijcai_entry(e)
      [] name = "COLT"  -> scrape_colt_entry(e)
      [] OTHER          -> parse_note(name, e)

RECURSIVE ParsePage(_, _, _)
ParsePage(name, legacy, page) ==
    IF page = <<>> THEN <<>>
    ELSE ParseEntry(name, legacy, Head(page)) \o ParsePage(name, legacy, Tail(page))

NoScraper == [name |-> "none", legacy |-> FALSE, pc |-> "idle", units |-> <<>>,
              papers |-> <<>>]
NoNet == [failed |-> FALSE, groups |-> 0, got |-> <<>>]

\* AAAI and CVPR (2018 and later) fetch an index and then one page per grouping
HasIndex(name, legacy) == name = "AAAI" \/ (name = "CVPR" /\ ~legacy)

\* main: the scraper is created
AdapterStart(name, legacy) ==
    /\ scraper.pc = "idle"
    /\ legacy => name = "CVPR"
    /\ scraper' = [name |-> name, legacy |-> legacy,
                   pc |-> IF HasIndex(name, legacy) THEN "index" ELSE "fetch",
                   units |-> IF HasIndex(name, legacy) THEN <<>> ELSE <<0>>,
                   papers |-> <<>>]
    /\ net' = NoNet
    /\ UNCHANGED <<output, toolVars, parse>>

\* the orders list(set(...)) can give
Orders(S) ==
    {o \in [1..Cardinality(S) -> S] : \A a, b \in DOMAIN o : a # b => o[a] # o[b]}
\* sorted(days)
RECURSIVE Sorted(_)
Sorted(S) ==
    IF S = {} THEN <<>>
    ELSE LET m == CHOOSE x \in S : \A y \in S : x <= y IN <<m>> \o Sorted(S \ {m})
Range(s) == {s[k] : k \in 1..Len(s)}

\* AAAI.py get_track_urls and scrape_all_papers 293-303; CVPR.py get_day_links
\* and scrape_cvpr 141-144. resp.ok = FALSE: the request fails.
AdapterIndex(resp, order) ==
    /\ scraper.pc = "index"
    /\ order \in Orders(Range(resp.links))
    /\ LET found == IF ~resp.ok THEN <<>>
                    ELSE IF scraper.name = "AAAI"
                    THEN SubSeq(order, 1, Len(order) - 1)       \* line 60
                    ELSE Sorted(Range(resp.links))              \* CVPR.py:51
           units == IF scraper.name = "AAAI" /\ found = <<>>
                    THEN [k \in 1..PREDEFINED_TRACKS |-> k]     \* lines 295-302
                    ELSE found
       IN  scraper' = [scraper EXCEPT !.units = units,
                          !.pc = IF units = <<>> THEN "save" ELSE "fetch"]
    /\ net' = [net EXCEPT !.failed = net.failed \/ ~resp.ok]
    /\ UNCHANGED <<output, toolVars, parse>>

\* One page is requested and parsed: a track (AAAI.py:172-266, 308-311), a
\* day (CVPR.py:147-155) or the only page of the other adapters.
\* resp.ok = FALSE: the request fails; ECCV.py:111 then calls a function the
\* file does not define.
AdapterFetch(resp) ==
    /\ scraper.pc = "fetch"
    /\ LET parsed == IF resp.ok
                     THEN ParsePage(scraper.name, scraper.legacy, resp.page) ELSE <<>>
       IN  /\ Len(scraper.papers) + Len(parsed) <= MaxPapers
           /\ scraper' =
                IF scraper.name = "ECCV" /\ ~resp.ok
                THEN [scraper EXCEPT !.pc = "crashed"]
                ELSE [scraper EXCEPT !.papers = @ \o parsed,
                                     !.units = Tail(@),
                                     !.pc = IF Tail(scraper.units) = <<>>
                                            THEN "save" ELSE "fetch"]
           /\ net' = [net EXCEPT !.failed = @ \/ ~resp.ok,
                                 !.groups = IF resp.ok THEN @ + 1 ELSE @,
                                 !.got = @ \o parsed]
    /\ UNCHANGED <<output, toolVars, parse>>

\* AAAI.py main and the OpenReview mains save whatever was collected; the
\* other mains save only a list that is not empty
Saves(name, collected) == name \in {"AAAI"} \cup OpenReview \/ collected # <<>>

\* main after the scrape: open the output file for writing, or only a message
AdapterSave ==
    /\ scraper.pc = "save"
    /\ IF Saves(scraper.name, scraper.papers)
       THEN /\ output' = Corrupt
            /\ scraper' = [scraper EXCEPT !.pc = "write"]
       ELSE /\ output' = output
            /\ scraper' = [scraper EXCEPT !.pc = "done"]
    /\ UNCHANGED <<net, toolVars, parse>>

\* variant: only `track` is left out
drop_track(paper) == [paper EXCEPT !.track = None]

\* AAAI.py:338: the copy of a record without the keys track and article_url
drop_transient(paper) == [paper EXCEPT !.track = None, !.article_url = None]

\* what the adapter hands to json.dump: AAAI.py:336-339 copies, the others
\* pass the list itself
papers_to_save(name, collected) ==
    IF name = "AAAI" THEN [k \in 1..Len(collected) |-> drop_transient(collected[k])]
    ELSE collected

\* json.dump completes
AdapterWritten ==
    /\ scraper.pc = "write"
    /\ output' = [kind |-> "list", recs |-> papers_to_save(scraper.name, scraper.papers)]
    /\ scraper' = [scraper EXCEPT !.pc = "done"]
    /\ UNCHANGED <<net, toolVars, parse>>

\* Ctrl-C: no adapter catches KeyboardInterrupt
AdapterInterrupt ==
    /\ scraper.pc \in {"index", "fetch", "save", "write"}
    /\ scraper' = [scraper EXCEPT !.pc = "interrupted"]
    /\ UNCHANGED <<output, net, toolVars, parse>>

Pages == SeqsUpTo(EntryPool, MaxPage)
Responses == {[ok |-> FALSE, page |-> <<>>]} \cup {[ok |-> TRUE, page |-> p] : p \in Pages}
IndexResponses ==
    {[ok |-> FALSE, links |-> <<>>]}
    \cup {[ok |-> TRUE, links |-> l] : l \in SeqsUpTo(1..(MaxGroups + 1), MaxGroups + 1)}

NextAdapter ==
    \/ \E name \in Adapters, legacy \in BOOLEAN : AdapterStart(name, legacy)
    \/ \E resp \in IndexResponses :
          \E order \in Orders(Range(resp.links)) : AdapterIndex(resp, order)
    \/ \E resp \in Responses : AdapterFetch(resp)
    \/ AdapterSave
    \/ AdapterWritten
    \/ AdapterInterrupt

----------------------------------------------------------------------------
(* The parsers of one page: CVPR.py (2017 and before) and AAAI.py *)

\* most title links, and most author blocks, of a single-page listing
MaxLinks == 3
MaxBlocks == 2
\* most lines of text of an AAAI entry
MaxLines == 3

\* str.split(sep) and re.split on a separator token
RECURSIVE split_on(_, _, _)
split_on(s, sep, cur) ==
    IF s = <<>> THEN <<cur>>
    ELSE IF Head(s) = sep THEN <<cur>> \o split_on(Tail(s), sep, <<>>)
    ELSE split_on(Tail(s), sep, Append(cur, Head(s)))

\* [a.strip() for a in pieces if a.strip()]
stripped(pieces) ==
    SelectSeq([k \in 1..Len(pieces) |-> Strip(pieces[k])], Truthy)

\* CVPR.py:96: the links the title pattern matches (a relative href to a
\* .html page, a text of one character or more)
title_matches(page) ==
    LET IsTitleLink(e) == /\ e.title # None /\ e.href # None
                          /\ Truthy(e.href[1]) /\ ~StartsWithHttp(e.href[1])
                          /\ Truthy(e.title[1])
    IN  SelectSeq(page, IsTitleLink)

\* variant: a link past the last block gets the last block
legacy_authors_last(author_blocks, k) ==
    IF author_blocks = <<>> THEN <<>>
    ELSE stripped(split_on(Strip(author_blocks[IF k <= Len(author_blocks) THEN k
                                                ELSE Len(author_blocks)]),
                           " and ", <<>>))

\* CVPR.py:108-112: the authors of the k-th link (k counts from 1)
legacy_authors(author_blocks, k) ==
    IF k <= Len(author_blocks)
    THEN stripped(split_on(Strip(author_blocks[k]), " and ", <<>>))
    ELSE <<>>

\* CVPR.py:99-120
RECURSIVE legacy_from(_, _, _)
legacy_from(matches, author_blocks, k) ==
    IF k > Len(matches) THEN <<>>
    ELSE LET found == parse_papers_from_html_legacy(matches[k])
         IN  (IF found = <<>> THEN <<>>                        \* line 103
              ELSE <<[title    |-> found[1].title,
                      authors  |-> legacy_authors(author_blocks, k),
                      pdf_link |-> found[1].pdf_link,
                      source   |-> found[1].source]>>)
             \o legacy_from(matches, author_blocks, k + 1)

\* CVPR.py:84-122 on a page with these links and these bibtex author blocks
parse_legacy_page(page, author_blocks) ==
    legacy_from(title_matches(page), author_blocks, 1)

\* AAAI.py:114, 134: `title in line`
TitleIn(title, line) ==
    \E k \in 1..(Len(line) - Len(title) + 1) :
        SubSeq(line, k, k + Len(title) - 1) = title

\* re.match(r'^\d+-\d+$', line) on the lines the model uses
IsPageRange(line) == line = <<"45-53">>

\* 'PDF' in line.upper()
HasPDF(line) == \E k \in 1..Len(line) : line[k] \in {"PDF", "pdf"}

\* a.isdigit() on the tokens the model uses
IsDigit(a) == a # <<>> /\ \A k \in 1..Len(a) : a[k] \in {"2024", "17"}

\* lines 120 and 143: `',' in line and len(line) > 10`
LongCommaLine(line) == Contains(line, ",") /\ TextLen(line) > 10

\* lines 123-125 and 144-145: the names of a line, when all have two
\* characters or more
names(line) == stripped(split_on(line, ",", <<>>))
NamesOk(authors) ==
    Len(authors) >= 1 /\ \A k \in 1..Len(authors) : TextLen(authors[k]) >= 2

\* AAAI.py:110-130: the lines after the title line, up to a page range
RECURSIVE first_pass(_, _, _)
first_pass(title, lines, found_title) ==
    IF lines = <<>> THEN <<>>
    ELSE LET line == Head(lines)
         IN  IF Truthy(title) /\ TitleIn(title, line)
             THEN first_pass(title, Tail(lines), TRUE)
             ELSE IF ~found_title
             THEN first_pass(title, Tail(lines), FALSE)
             ELSE IF LongCommaLine(line)
             THEN (IF ~IsPageRange(line) /\ NamesOk(names(line))
                   THEN names(line)
                   ELSE first_pass(title, Tail(lines), TRUE))
             ELSE IF IsPageRange(line) THEN <<>>
             ELSE first_pass(title, Tail(lines), TRUE)

\* AAAI.py:132-151: all lines
RECURSIVE scan_fallback(_, _)
scan_fallback(title, lines) ==
    IF lines = <<>> THEN <<>>
    ELSE LET line == Head(lines)
         IN  IF \/ Truthy(title) /\ TitleIn(title, line)
                \/ IsPageRange(line)
                \/ HasPDF(line)
             THEN scan_fallback(title, Tail(lines))
             ELSE IF /\ LongCommaLine(line)
                     /\ NamesOk(names(line))
                     /\ ~(\A k \in 1..Len(names(line)) : IsDigit(names(line)[k]))
             THEN names(line)
             ELSE scan_fallback(title, Tail(lines))

\* AAAI.py:105-151: paper_info['authors'] for an entry with this title
extract_authors(title, lines) ==
    LET authors == first_pass(title, lines, FALSE)
    IN  IF authors # <<>> THEN authors ELSE scan_fallback(title, lines)

NoParse == [fn |-> "none", page |-> <<>>, author_blocks |-> <<>>, title |-> <<>>,
            lines |-> <<>>, result |-> <<>>, done |-> FALSE]

\* parse_papers_from_html_legacy returns
ParseLegacy ==
    /\ parse.fn = "legacy" /\ ~parse.done
    /\ parse' = [parse EXCEPT !.result = parse_legacy_page(parse.page, parse.author_blocks),
                              !.done = TRUE]
    /\ UNCHANGED <<toolVars, adapterVars>>

\* the author part of parse_paper_from_article is through
ExtractAuthors ==
    /\ parse.fn = "authors" /\ ~parse.done
    /\ parse' = [parse EXCEPT !.result = extract_authors(parse.title, parse.lines),
                              !.done = TRUE]
    /\ UNCHANGED <<toolVars, adapterVars>>

NextParse == ParseLegacy \/ ExtractAuthors

\* title links: two titles, a text of blanks, an empty text (no match)
LinkPool ==
    { Entry(Some(LongTitle),  Some(RelHref)),
      Entry(Some(ShortTitle), Some(RelHref)),
      Entry(Some(<<" ">>),    Some(RelHref)),
      Entry(Some(EmptyStr),   Some(RelHref)) }

BlockPool ==
    { <<"Ann Lee", " and ", "Bo Wu">>,
      <<" ", "Cy Ng">>,
      <<" ">> }

\* a title with a comma, and the lines of an entry
CommaTitle == <<"Deep Nets", ",", " ", "Revisited">>
LinePool ==
    { CommaTitle,
      <<"45-53">>,
      <<"A. Smith", ",", " ", "B. Lee">>,
      <<"Li", ",", " ", "Wu">>,
      <<"PDF">> }

ParseInputs ==
    { [NoParse EXCEPT !.fn = "legacy", !.page = l, !.author_blocks = b] :
          l \in SeqsUpTo(LinkPool, MaxLinks), b \in SeqsUpTo(BlockPool, MaxBlocks) }
    \cup
    { [NoParse EXCEPT !.fn = "authors", !.title = CommaTitle, !.lines = l] :
          l \in SeqsUpTo(LinePool, MaxLines) }

----------------------------------------------------------------------------
(* The working directory and the operator *)

\* longest list the smaller files hold initially
MaxOther == 1

Contents(pool, n) == {Absent, Corrupt, Object} \cup {List(s) : s \in SeqsUpTo(pool, n)}

InitLocals ==
    /\ op = "idle"
    /\ pc = "none"
    /\ papers = <<>>
    /\ i = 0
    /\ processed_count = 0
    /\ all_papers = <<>>
    /\ json_files = <<>>
    /\ papers_to_keep = <<>>
    /\ start = files
    /\ lastOp = "none"
    /\ outcome = "none"
    /\ looked = {}
    /\ restarts = {}
    /\ prevLooked = <<>>
    /\ matched = {}
    /\ wrote = FALSE
    /\ runs = 0
    /\ input = NoInput
    /\ call = NoCall
    /\ scraper = NoScraper
    /\ output = Absent
    /\ net = NoNet

InitRest == InitLocals /\ parse = NoParse

NextEnrichOver(urls) ==
    \/ EnrichStart
    \/ EnrichSkip
    \/ EnrichLookup
    \/ \E raw \in SeqsUpTo(urls, MaxHits) : EnrichResult(raw)
    \/ EnrichSaved
    \/ EnrichSleep
    \/ EnrichDone
    \/ \E how \in {"interrupted", "failed"} : EnrichStop(how)

NextEnrich == NextEnrichOver(URLS)

NextMerge ==
    \/ \E order \in GlobOrders(files), openOK \in BOOLEAN :
          MergeStart(order, openOK)
    \/ MergeWritten
    \/ MergeWriteFailed
    \/ \E removed \in BOOLEAN : MergeRemove(removed)
    \/ MergeDone
    \/ MergeInterrupt

\* What the operator gives json_delete: a command line, or answers to the
\* two prompts (read only when the command line has no argument)
ArgvSources == { <<"AAAI">>, <<"CVPR">>, <<>> }
YearTexts == { <<"2024">>, <<" ", "2023">>, <<"abc">>, <<>> }
DeleteInputs ==
    { [argv |-> <<s>>, source_in |-> <<>>, year_in |-> <<>>] : s \in ArgvSources }
    \cup { [argv |-> <<s, y>>, source_in |-> <<>>, year_in |-> <<>>] :
              s \in ArgvSources, y \in YearTexts }
    \cup { [argv |-> <<>>, source_in |-> s, year_in |-> y] :
              s \in { <<" ", "AAAI">>, <<" ">> }, y \in YearTexts }
SmallDeleteInputs ==
    { [argv |-> a, source_in |-> <<>>, year_in |-> <<>>] :
        a \in { << <<"AAAI">> >>, << <<"CVPR">>, <<"abc">> >> } }
Answers == { <<"y">>, <<" ", "YES", " ">>, <<"n">>, <<>>, <<"yes", " ", "y">> }
SmallAnswers == { <<"y">>, <<"n">> }

NextDeleteOver(inputs, answers) ==
    \/ \E in \in inputs : DeleteMain(in.argv, in.source_in, in.year_in)
    \/ \E answer \in answers, openOK \in BOOLEAN : DeleteConfirm(answer, openOK)
    \/ DeleteWritten
    \/ \E how \in {"interrupted", "failed"} : DeleteStop(how)

NextDelete == NextDeleteOver(DeleteInputs, Answers)

\* Enrichment passes over an arbitrary JSON_FILE
InitEnrich ==
    /\ files \in [FileNames -> Contents(Pool, MaxLen)]
    /\ files[target_file] = Absent
    /\ files[OTHER_FILE] = Absent
    /\ InitRest

SpecEnrich == InitEnrich /\ [][NextEnrich]_vars

\* The enrichment pass alone, the lookups returning the links of HostURLS.
NextLookup == NextEnrichOver(HostURLS)

SpecLookup == InitEnrich /\ [][NextLookup]_vars

\* The enrichment pass over a store long enough for the browser to be
\* restarted within a pass that also skips a record: a record to look up, a
\* record that has a code, a record without title.
PassPool ==
    { Rec(<<"A">>, YInt(2024), "AAAI", FALSE, EmptyStr),
      Rec(<<"C">>, YNone,      "AAAI", TRUE,  <<"https://", "github.com", "/c/z">>),
      Rec(EmptyStr, YInt(2023), "AAAI", FALSE, EmptyStr) }

InitPass ==
    /\ files \in [FileNames -> Contents(PassPool, MaxLen + RESTART_EVERY_N)]
    /\ files[JSON_FILE].kind = "list"
    /\ files[target_file] = Absent
    /\ files[OTHER_FILE] = Absent
    /\ InitRest

NextPass == NextEnrichOver(SmallURLS)

SpecPass == InitPass /\ [][NextPass]_vars

\* Consolidation runs over an arbitrary directory (papers.json sorted or not)
InitMerge ==
    /\ files \in [FileNames -> Contents(MergePool, MaxLen)]
    /\ files[JSON_FILE] \in Contents(MergePool, MaxOther)
    /\ files[OTHER_FILE] \in Contents(MergePool, MaxOther)
    /\ InitRest

SpecMerge == InitMerge /\ [][NextMerge]_vars

\* Consolidation over records whose year is a number, text, or missing
YearPool ==
    { Rec(<<"A">>, YInt(2024),  "AAAI", FALSE, EmptyStr),
      Rec(<<"B">>, YStr("n/a"), "CVPR", FALSE, EmptyStr),
      Rec(<<"C">>, YNone,       "AAAI", FALSE, EmptyStr) }

InitMergeYears ==
    /\ files \in [FileNames -> Contents(YearPool, MaxOther)]
    /\ InitRest

SpecMergeYears == InitMergeYears /\ [][NextMerge]_vars

\* The records bulk deletes are run over: one source in two years and
\* without year, a second source
DeletePool ==
    { Rec(<<"A">>, YInt(2024), "AAAI", FALSE, EmptyStr),
      Rec(<<"B">>, YInt(2023), "AAAI", FALSE, EmptyStr),
      Rec(<<"C">>, YNone,      "AAAI", FALSE, EmptyStr),
      Rec(<<"D">>, YInt(2024), "CVPR", FALSE, EmptyStr) }

\* Bulk deletes over an arbitrary papers.json
InitDelete ==
    /\ \E store \in Contents(DeletePool, MaxLen) :
          files = [f \in FileNames |-> IF f = target_file THEN store ELSE Absent]
    /\ InitRest

SpecDelete == InitDelete /\ [][NextDelete]_vars

\* One run of one adapter, nothing in the working directory
InitAdapter ==
    /\ files = [f \in FileNames |-> Absent]
    /\ InitRest

SpecAdapter == InitAdapter /\ [][NextAdapter]_vars

\* One parser applied to one input
InitParse ==
    /\ files = [f \in FileNames |-> Absent]
    /\ InitLocals
    /\ parse \in ParseInputs

SpecParse == InitParse /\ [][NextParse]_vars

\* Any sequence of the three tools, from an absent or empty papers.json
Init ==
    /\ files \in [FileNames -> Contents(SmallPool, MaxOther)]
    /\ files[target_file] \in {Absent, List(<<>>)}
    /\ InitRest

Next ==
    \/ NextEnrichOver(SmallURLS)
    \/ NextMerge
    \/ NextDeleteOver(SmallDeleteInputs, SmallAnswers)

Spec == Init /\ [][Next]_vars

----------------------------------------------------------------------------
(* Enrichment: skipping, recording, idempotence (checked under SpecEnrich) *)

Store == files[JSON_FILE]

MatchedIdx == {m[1] : m \in matched}

PassCompleted == op = "idle" /\ lastOp = "enrich" /\ outcome = "ok"

\* C1: in an enrichment pass no lookup is issued for a record that has a
\* `code` key, whatever its value (a URL or the empty string).
C1_NoLookupWithCodeKey ==
    (op = "enrich" /\ pc = "lookup") => ~papers[i].hasCode

\* C2: every record that a completed pass looked up without finding a
\* code-hosting URI has `code` = "" in the persisted store.
C2_MissRecordedAsEmpty ==
    PassCompleted =>
        \A k \in looked \ MatchedIdx :
            /\ Store.kind = "list"
            /\ Store.recs[k].hasCode
            /\ Store.recs[k].code = EmptyStr

\* C3: a pass run right after a completed pass, with no lookup giving a new
\* result, leaves the store as it was and looks up no record the first pass
\* looked up.
C3_SecondPassIdle ==
    (PassCompleted /\ prevLooked # <<>> /\ matched = {}) =>
        /\ files = start
        /\ looked \cap prevLooked[1] = {}

\* how often record r is in the lists of directory dir
Occurrences(dir, r) ==
    Cardinality({fk \in FileNames \X (1..(MaxStore + MaxLen)) :
                    /\ dir[fk[1]].kind = "list"
                    /\ fk[2] <= Len(dir[fk[1]].recs)
                    /\ dir[fk[1]].recs[fk[2]] = r})

StoredRecords(dir) ==
    UNION {{dir[f].recs[k] : k \in 1..Len(dir[f].recs)} : f \in FileNames}

\* C4: a record that has a `code` key when a consolidation run or an
\* enrichment pass starts still has it, with the same value, when the run
\* has completed.
C4_CodeNeverRewritten ==
    (op = "idle" /\ lastOp \in {"enrich", "merge"} /\ outcome = "ok") =>
        \A r \in StoredRecords(start) :
            r.hasCode => Occurrences(files, r) >= Occurrences(start, r)

Persisted(k, url) ==
    /\ Store.kind = "list"
    /\ k <= Len(Store.recs)
    /\ Store.recs[k].hasCode
    /\ Store.recs[k].code = url

\* C5: between two lookups, and when the pass has ended (completed, failed or
\* interrupted), the persisted store holds every `code` the pass attached by
\* the lookups before the one in flight.
C5_WriteThrough ==
    (/\ lastOp = "enrich"
     /\ \/ op = "enrich" /\ pc \in {"loop", "sleep"}
        \/ op = "idle" /\ outcome \in {"ok", "interrupted", "failed"}) =>
        \A m \in matched : (m[1] < i \/ pc = "sleep") => Persisted(m[1], m[2])

----------------------------------------------------------------------------
(* Consolidation (checked under SpecMerge; C7 under Spec) *)

Canon == files[target_file]

MergedInput(order) == Loaded(start[target_file]) \o ReadAll(start, order)

IsSortedDesc(s) ==
    \A a, b \in 1..Len(s) : a < b => get_year(s[a]) >= get_year(s[b])

OfYear(s, y) == LET Test(r) == get_year(r) = y IN SelectSeq(s, Test)

YearsOf(s) == {get_year(s[k]) : k \in 1..Len(s)}

SameOrderPerYear(out, in) ==
    \A y \in YearsOf(out) \cup YearsOf(in) : OfYear(out, y) = OfYear(in, y)

MergeWrote == lastOp = "merge" /\ wrote

\* C6: what consolidation writes is sorted by year descending, and records of
\* equal year keep the order of the concatenated input (papers.json first,
\* then the partial collections in the order they were globbed).
C6_StableSortedMerge ==
    MergeWrote =>
        /\ Canon.kind = "list"
        /\ IsSortedDesc(Canon.recs)
        /\ \E order \in GlobOrders(start) :
               SameOrderPerYear(Canon.recs, MergedInput(order))

C6_Witness ==
    /\ MergeWrote
    /\ ~IsSortedDesc(Loaded(start[target_file]))
    /\ \E order \in GlobOrders(start) : Canon.recs # MergedInput(order)
    /\ \E a, b \in 1..Len(Canon.recs) :
          /\ a < b
          /\ Canon.recs[a] # Canon.recs[b]
          /\ get_year(Canon.recs[a]) = get_year(Canon.recs[b])

C8_NoDuplicateTitles ==
    (MergeWrote /\ Canon.kind = "list") =>
        \A a, b \in 1..Len(Canon.recs) :
            a # b => Canon.recs[a].title # Canon.recs[b].title

\* C9: a partial collection is removed only after papers.json has been
\* written successfully; after a failed write nothing is removed.
C9_RemoveAfterWrite ==
    [][\A f \in Partials :
          (files[f].kind # "absent" /\ files'[f].kind = "absent") =>
              (op = "merge" /\ wrote /\ Canon = List(all_papers))]_vars

C9_Witness ==
    /\ MergeWrote
    /\ \E f \in Partials : start[f].kind # "absent" /\ files[f].kind = "absent"

\* C10: a partial collection that consolidation removed was an array, and
\* each of its records is in papers.json.
C10_RemovedOnlyIfMerged ==
    \A f \in Partials :
        (lastOp = "merge" /\ start[f].kind # "absent" /\ files[f].kind = "absent") =>
            /\ start[f].kind = "list"
            /\ Canon.kind = "list"
            /\ \A k \in 1..Len(start[f].recs) :
                   \E j \in 1..Len(Canon.recs) : Canon.recs[j] = start[f].recs[k]

----------------------------------------------------------------------------
(* Persistence failures *)

\* C11: when papers.json exists and cannot be read as an array, consolidation
\* writes nothing: papers.json and the partial collections stay as they were.
C11_UnreadableStoreUntouched ==
    (lastOp = "merge" /\ start[target_file].kind \in {"corrupt", "object"}) =>
        files = start

\* C12: a file that held an array when a tool started is never found
\* truncated or partly written, whether the tool's write is under way, has
\* failed or has been interrupted.
C12_NeverTruncated ==
    \A f \in FileNames : start[f].kind = "list" => files[f].kind # "corrupt"

----------------------------------------------------------------------------
(* Bulk delete (checked under SpecDelete) *)

\* the records of s that the delete request asks to remove
Requested(r) ==
    /\ <<r.source>> = call.source
    /\ call.year # NoYear => r.year = YInt(call.year[1])
NotRequested(r) == ~Requested(r)
Yes == { <<"y">>, <<"yes">> }

\* C13: a bulk delete asks for confirmation only when a record matches, and
\* papers.json differs from what it was only when the trimmed, lower-cased
\* answer is y or yes; with any other answer, or no match, it is unchanged.
C13_DeleteGated ==
    lastOp = "delete" =>
        /\ call.asked =>
              /\ call.deleted_count > 0
              /\ Len(SelectSeq(Loaded(start[target_file]), Requested)) > 0
        /\ (\/ ~call.asked
            \/ call.confirm \notin Yes
            \/ Len(SelectSeq(Loaded(start[target_file]), Requested)) = 0) =>
              files = start
        /\ call.confirm = LowerAnswer(Strip(call.answer))

C13_Witness ==
    /\ lastOp = "delete" /\ op = "idle"
    /\ outcome = "declined" /\ call.answer = <<"yes", " ", "y">>
    /\ call.deleted_count = 2
    /\ files = start

GivenYear ==
    IF Len(input.argv) >= 1
    THEN (IF Len(input.argv) >= 2 THEN <<input.argv[2]>> ELSE <<>>)
    ELSE (IF Strip(input.year_in) # <<>> THEN <<input.year_in>> ELSE <<>>)
GivenSource == IF Len(input.argv) >= 1 THEN input.argv[1] ELSE Strip(input.source_in)
IntegerTexts == { <<"2024">>, <<"2023">>, <<"0">> }
InvalidInput ==
    \/ GivenSource = <<>>
    \/ GivenYear # <<>> /\ Strip(GivenYear[1]) \notin IntegerTexts

\* C15: a year that is not an integer, or an empty source name, ends the bulk
\* delete before papers.json is looked at: whatever the file holds, the run
\* ends as bad input, asks nothing and changes no file.
C15_BadInputAborts ==
    (lastOp = "delete" /\ InvalidInput) =>
        /\ op = "idle" /\ outcome = "badinput"
        /\ ~call.asked
        /\ files = start

C15_Witness ==
    /\ lastOp = "delete" /\ outcome = "badinput"
    /\ input.argv = << <<"AAAI">>, <<"abc">> >>
    /\ Len(SelectSeq(Loaded(start[target_file]), LAMBDA r : r.source = "AAAI")) > 0
----------------------------------------------------------------------------
(* Years that are no integers (checked under SpecMergeYears) *)

InvalidYear(r) == r.year.kind \in {"none", "str"}
PositiveYear(r) == r.year.kind = "int" /\ r.year.val > 0
HasInvalidYear(s) == \E k \in 1..Len(s) : InvalidYear(s[k])

\* C20: a consolidation over records without a valid year does not fail
\* because of them, and writes them behind every record with a positive year.
C20_InvalidYearLast ==
    (lastOp = "merge" /\ op = "idle" /\ HasInvalidYear(MergedInput(<<JSON_FILE, OTHER_FILE>>))) =>
        /\ outcome # "crashed"
        /\ wrote => \A a, b \in 1..Len(Canon.recs) :
                       (InvalidYear(Canon.recs[a]) /\ PositiveYear(Canon.recs[b])) => b < a
----------------------------------------------------------------------------
(* Source adapters (checked under SpecAdapter) *)

\* C16: when an adapter run is interrupted after some groupings have been
\* fetched and parsed, the output file holds the records of those groupings.
C16_InterruptKeepsFetched ==
    (scraper.pc = "interrupted" /\ net.groups > 0 /\ net.got # <<>>) =>
        output = [kind |-> "list", recs |-> net.got]

\* C17: after a failed request no adapter run ends in an uncaught error, and
\* a run that gets to its end has collected, in order, the records of every
\* page that was fetched.
C17_TransportFailureSkipped ==
    net.failed =>
        /\ scraper.pc # "crashed"
        /\ scraper.pc \in {"save", "write", "done"} => scraper.papers = net.got

\* the records an adapter has written to its output file
Emitted == IF output.kind = "list" THEN output.recs ELSE <<>>

\* C18: every record in an adapter's output file has a title that is not
\* empty and is no stand-in for a title that was not found.
C18_TitleExtracted ==
    \A k \in 1..Len(Emitted) : Truthy(Emitted[k].title) /\ Emitted[k].title # NA

\* C19: every record in an adapter's output file has a pdf_link that is empty
\* or starts with a scheme and a host.
C19_PdfLinkAbsoluteOrEmpty ==
    \A k \in 1..Len(Emitted) :
        \/ Emitted[k].pdf_link = EmptyStr
        \/ /\ Len(Emitted[k].pdf_link) >= 2
           /\ Emitted[k].pdf_link[1] \in {"http://", "https://"}

----------------------------------------------------------------------------
(* search_papers.py: the candidate that is attached *)

\* the host of a link (urlparse(url).hostname, which is lower-cased)
Host(url) == LowerTok(url[2])

HostMatches(url) == Host(url) = "github.com"

FirstHostMatch(urls) ==
    LET ks == {k \in 1..Len(urls) : HostMatches(urls[k])}
    IN  IF ks = {} THEN None
        ELSE Some(urls[CHOOSE k \in ks : \A m \in ks : k <= m])

\* C21: whatever list of candidates a lookup returns, the record gets as
\* `code` the earliest candidate whose host is the code-hosting domain, and
\* the record is left as it was when no candidate has that host.
C21_FirstHostMatchAttached ==
    [][\A raw \in SeqsUpTo(HostURLS, MaxHits) :
          EnrichResult(raw) =>
              LET first == FirstHostMatch(search_paper_in_edge(raw))
              IN  IF first = None
                  THEN papers' = papers
                  ELSE /\ papers'[i].hasCode
                       /\ papers'[i].code = first[1]]_vars

----------------------------------------------------------------------------
(* search_papers.py: the browser sessions of a pass *)

LastRestart == IF restarts = {} THEN 0
               ELSE CHOOSE k \in restarts : \A m \in restarts : m <= k

\* the lookups issued since the browser was last started
SessionLookups == Cardinality({k \in looked : k >= LastRestart})

\* C22: during a pass the browser in use has issued at most RESTART_EVERY_N
\* lookups, and the counter is the number of lookups that have returned
\* since the browser was started: skipped records do not count.
C22_SessionCadence ==
    op = "enrich" =>
        /\ SessionLookups <= RESTART_EVERY_N
        /\ processed_count =
              IF pc = "lookup" THEN SessionLookups - 1 ELSE SessionLookups

\* a pass that skipped a record, used up a browser and looked a record up
\* with the next one
C22_Witness ==
    /\ op = "enrich" /\ pc = "sleep"
    /\ restarts # {}
    /\ Cardinality(looked) = RESTART_EVERY_N + 1
    /\ i > Cardinality(looked)
    /\ processed_count = 1

----------------------------------------------------------------------------
(* search_papers.py: what a pass may change *)

\* save_json was stopped between open(.., 'w') and the end of json.dump
WriteCut == start[JSON_FILE].kind = "list" /\ Store.kind = "corrupt"

SameButCode(a, b) ==
    [a EXCEPT !.code = EmptyStr, !.hasCode = FALSE] =
    [b EXCEPT !.code = EmptyStr, !.hasCode = FALSE]

\* C27: during and after an enrichment pass (completed, failed or interrupted,
\* no write cut part-way) no file but the store has changed, and the store
\* holds the records it held at the start, in the same order, each equal to
\* what it was but for `code`, which differs only for records looked up.
C27_OnlyCodeChanges ==
    (lastOp = "enrich" /\ ~WriteCut) =>
        /\ \A f \in FileNames \ {JSON_FILE} : files[f] = start[f]
        /\ Store.kind = start[JSON_FILE].kind
        /\ Store.kind # "list" => Store = start[JSON_FILE]
        /\ Store.kind = "list" =>
              /\ Len(Store.recs) = Len(start[JSON_FILE].recs)
              /\ \A k \in 1..Len(Store.recs) :
                    /\ SameButCode(Store.recs[k], start[JSON_FILE].recs[k])
                    /\ Store.recs[k] # start[JSON_FILE].recs[k] => k \in looked

\* an interrupted pass that had attached a code to the second of three records
C27_Witness ==
    /\ op = "idle" /\ lastOp = "enrich" /\ outcome = "interrupted"
    /\ Store.kind = "list" /\ Len(Store.recs) = 3
    /\ Store.recs[2] # start[JSON_FILE].recs[2]
    /\ Store.recs[1] = start[JSON_FILE].recs[1]
    /\ i = 2

----------------------------------------------------------------------------
(* search_papers.py: the order and pacing of the lookups *)

Untitled(k) == ~Truthy(start[JSON_FILE].recs[k].title)

\* no record without title has been looked up or changed
UntitledUntouched ==
    (lastOp = "enrich" /\ start[JSON_FILE].kind = "list") =>
        \A k \in 1..Len(start[JSON_FILE].recs) :
            Untitled(k) =>
                /\ k \notin looked
                /\ op = "enrich" => papers[k] = start[JSON_FILE].recs[k]
                /\ Store.kind = "list" => Store.recs[k] = start[JSON_FILE].recs[k]

\* C30: in a pass a lookup is issued from the loop for a record not looked
\* up before and after every record looked up so far; the step that follows
\* a lookup (and the write it may cause) within the pass is the pacing delay,
\* and only the delay leads back to the loop; no record without title is
\* ever looked up or changed.
C30_OrderedPacedLookups ==
    [][/\ (op' = "enrich" /\ pc' = "lookup" /\ pc # "lookup") =>
            /\ op = "enrich" /\ pc = "loop"
            /\ i' = i
            /\ i \notin looked
            /\ \A k \in looked : k < i
            /\ looked' = looked \cup {i}
       /\ (op = "enrich" /\ op' = "enrich" /\ pc = "lookup") =>
            pc' \in {"save", "sleep"} /\ looked' = looked
       /\ (op = "enrich" /\ op' = "enrich" /\ pc = "save") =>
            pc' = "sleep" /\ looked' = looked
       /\ (op = "enrich" /\ op' = "enrich" /\ pc = "sleep") =>
            pc' = "loop" /\ i' = i + 1 /\ looked' = looked
       /\ UntitledUntouched']_vars

\* the second lookup of a pass is paced, a record without title lying
\* between the two records looked up
C30_Witness ==
    /\ op = "enrich" /\ pc = "sleep"
    /\ looked = {1, 3}
    /\ Untitled(2)
    /\ papers[2] = start[JSON_FILE].recs[2]

----------------------------------------------------------------------------
(* json_merge.py: the records of the written store *)

CountIn(s, r) == Cardinality({k \in 1..Len(s) : s[k] = r})

\* the records of a file that holds an array
RecordsOf(content) == IF content.kind = "list" THEN content.recs ELSE <<>>

\* what the directory held in arrays when the run started
ReadableInput ==
    RecordsOf(start[target_file]) \o RecordsOf(start[JSON_FILE])
        \o RecordsOf(start[OTHER_FILE])

\* C28: the store consolidation has written holds, record for record and as
\* often, the records of the readable papers.json it found and of every
\* array-format partial collection it found, and nothing else.
C28_MergePreservesRecords ==
    MergeWrote =>
        /\ Canon.kind = "list"
        /\ Len(Canon.recs) = Len(ReadableInput)
        /\ \A r \in MergePool :
              CountIn(Canon.recs, r) = CountIn(ReadableInput, r)

\* a store and two partial collections, a record of one also in another
C28_Witness ==
    /\ MergeWrote
    /\ RecordsOf(start[target_file]) # <<>>
    /\ \A f \in Partials : RecordsOf(start[f]) # <<>>
    /\ \E r \in MergePool : CountIn(Canon.recs, r) = 2
    /\ Len(Canon.recs) = 3

----------------------------------------------------------------------------
(* json_merge.py: a run that finds no partial collection *)

NoPartial(dir) == \A f \in Partials : dir[f].kind = "absent"

\* C29: a consolidation run started in a directory without partial
\* collection returns at once: nothing is written (papers.json stays as it
\* was, sorted or not, readable or not) and nothing is deleted; and no run
\* deletes papers.json.
C29_NoPartialsNoOp ==
    lastOp = "merge" =>
        /\ NoPartial(start) =>
              /\ op = "idle" /\ outcome = "nothing"
              /\ ~wrote
              /\ files = start
        /\ start[target_file].kind # "absent" => Canon.kind # "absent"

\* the run after a run that merged three records and removed the partial
\* collections: the store is the one that run wrote
C29_Witness ==
    /\ lastOp = "merge" /\ runs >= 2
    /\ NoPartial(start)
    /\ outcome = "nothing"
    /\ Canon.kind = "list" /\ Len(Canon.recs) = MaxLen + 1

----------------------------------------------------------------------------
(* AAAI.py: the list of groupings *)

\* the links of a page, each at the place where it comes first
RECURSIVE Dedup(_)
Dedup(links) ==
    IF links = <<>> THEN <<>>
    ELSE LET front == Dedup(SubSeq(links, 1, Len(links) - 1))
             last  == links[Len(links)]
         IN  IF last \in Range(front) THEN front ELSE Append(front, last)

\* C24: from an index page that links to two groupings or more, the AAAI
\* adapter takes the groupings in the order the page names them, each once,
\* without the one named last; so one page gives one list.
C24_TrackListDiscoveryOrder ==
    [][\A resp \in IndexResponses :
          \A order \in Orders(Range(resp.links)) :
              (/\ scraper.name = "AAAI"
               /\ resp.ok
               /\ Len(Dedup(resp.links)) >= 2
               /\ AdapterIndex(resp, order)) =>
                  scraper'.units =
                      SubSeq(Dedup(resp.links), 1, Len(Dedup(resp.links)) - 1)]_vars

----------------------------------------------------------------------------
(* AAAI.py: the records of the output file *)

\* C26: the file an AAAI run has written holds one record for each record
\* collected, in the order collected, without the keys `track` and
\* `article_url` and with the other fields as collected.
C26_TransientFieldsStripped ==
    (scraper.name = "AAAI" /\ scraper.pc = "done" /\ output.kind = "list") =>
        /\ Len(output.recs) = Len(scraper.papers)
        /\ \A k \in 1..Len(output.recs) :
              /\ output.recs[k].track = None
              /\ output.recs[k].article_url = None
              /\ output.recs[k].title = scraper.papers[k].title
              /\ output.recs[k].pdf_link = scraper.papers[k].pdf_link
              /\ output.recs[k].source = scraper.papers[k].source

\* two different records collected, both with the two keys, and written
C26_Witness ==
    /\ scraper.name = "AAAI" /\ scraper.pc = "done" /\ output.kind = "list"
    /\ Len(scraper.papers) = 2
    /\ scraper.papers[1].pdf_link # scraper.papers[2].pdf_link
    /\ \A k \in 1..2 : /\ scraper.papers[k].track = Some(TRACK_NAME)
                         /\ scraper.papers[k].article_url = Some(ARTICLE_URL)

----------------------------------------------------------------------------
(* CVPR.py: title links and author blocks of a single-page listing *)

\* the names of a bibtex author block
AuthorsOf(block) == stripped(split_on(Strip(block), " and ", <<>>))

\* C23: the records of a single-page listing are those of its title links
\* with a title, in order; the record of the k-th title link has the names
\* of the k-th author block, and no name when the page has fewer than k
\* author blocks; the parser returns for every page.
C23_LegacyPairsByIndex ==
    (parse.fn = "legacy" /\ parse.done) =>
        LET links  == title_matches(parse.page)
            kept   == {k \in 1..Len(links) : Truthy(Strip(links[k].title[1]))}
            Kth(j) == CHOOSE k \in kept : Cardinality({x \in kept : x < k}) = j - 1
        IN  /\ Len(parse.result) = Cardinality(kept)
            /\ \A j \in 1..Len(parse.result) :
                  /\ parse.result[j].title = Strip(links[Kth(j)].title[1])
                  /\ parse.result[j].authors =
                        IF Kth(j) <= Len(parse.author_blocks)
                        THEN AuthorsOf(parse.author_blocks[Kth(j)])
                        ELSE <<>>

\* three title links and two author blocks: the third link, past the last
\* block, is emitted without authors (the second block has names: it goes
\* with the second link, whose title is blank)
C23_Witness ==
    /\ parse.fn = "legacy" /\ parse.done
    /\ Len(title_matches(parse.page)) = 3
    /\ Len(parse.author_blocks) = 2
    /\ AuthorsOf(parse.author_blocks[2]) # <<>>
    /\ Len(parse.result) = 2
    /\ parse.result[1].authors # <<>>
    /\ parse.result[2].authors = <<>>

----------------------------------------------------------------------------
(* AAAI.py: the author line of an entry *)

\* a line of two names or more, each of two characters or more
AuthorLine(line) ==
    /\ line # parse.title
    /\ ~IsPageRange(line)
    /\ Len(names(line)) >= 2
    /\ \A k \in 1..Len(names(line)) : TextLen(names(line)[k]) >= 2

\* C25: for an entry whose lines are the title line and then, in either
\* order, a page-range line and one author line (and no other title line),
\* the extractor returns the names of that author line, in order.
C25_AuthorLineExtracted ==
    (parse.fn = "authors" /\ parse.done) =>
        \A a, r \in 2..Len(parse.lines) :
            (/\ parse.lines[1] = parse.title
             /\ AuthorLine(parse.lines[a])
             /\ IsPageRange(parse.lines[r])
             /\ \A k \in 2..Len(parse.lines) :
                    /\ parse.lines[k] # parse.title
                    /\ AuthorLine(parse.lines[k]) => k = a) =>
                parse.result = names(parse.lines[a])

====
